---- MODULE Spec2Model ----
(***************************************************************************)
(* Store provisioning API (backend/app): the HTTP handlers of main.py, the *)
(* orchestrator StoreManager of store_manager.py and the cluster wrapper   *)
(* KubernetesManager of kubernetes_manager.py.                             *)
(*                                                                         *)
(* The cluster is a map from store names to the phase of namespace         *)
(* store-<name>.  Each client handles one request at a time; a request is  *)
(* executed one external interaction (control-plane call or command) per   *)
(* step, so that requests of different clients interleave between calls.   *)
(***************************************************************************)
EXTENDS Naturals, Sequences, FiniteSets, TLC

\* unit: the function under evaluation, its input and its result, in the
\* specification that applies single functions to drawn inputs (UnitSpec).
VARIABLES store_mgr, ns, pc, req, call, resp, deleted, served, unit
vars == <<store_mgr, ns, pc, req, call, resp, deleted, served, unit>>

\* ------------------------------------------------------------------ bounds
\* Requests served over the life of the process (both clients together).
MaxRequests == 2

\* ------------------------------------------------------- program constants
max_retries == 5

Clients == {"c1", "c2"}
Names == {"shop", "cafe"}
Emails == {"owner@example.com"}
Phases == {"Absent", "Active", "Terminating"}

\* How a control-plane call can end: the control plane answers (the answer
\* depends on the namespace), an ApiException with another status, or an
\* error that is not an ApiException (connection failure).
CallOutcomes == {"ok", "api_error", "conn_error"}

\* How an external command can end (subprocess.run of _run_command).
RunOutcomes == {"exit0", "exit1", "timeout"}

Endpoints == {"ROOT", "HEALTH", "POST", "LIST", "GET", "DELETE"}

\* str(e) of an exception raised by the kubernetes client.
ExcText(o) == IF o = "api_error" THEN "ApiException(500)" ELSE "MaxRetryError"

\* Variant: the namespace prefix without its hyphen.
Namespace_nohyphen(name) == "store" \o name

\* kubernetes_manager.py:44 and store_manager.py:78
Namespace(name) == "store-" \o name

\* symbolic values of secrets.token_urlsafe(16) and datetime.now().isoformat()
admin_password == "token_urlsafe(16)"
created_timestamp == "utcnow"

NoCall == [preCheck |-> "none", created |-> FALSE, createFailed |-> FALSE,
           helm |-> "none", stderr |-> "", attempts |-> 0, sleeps |-> 0,
           installed |-> FALSE, codTried |-> FALSE, delCalls |-> 0,
           uninstallRan |-> FALSE, err |-> "", deletedBefore |-> {},
           query |-> "none", status_info |-> <<>>, helmCheck |-> "none",
           cod |-> "none", delResult |-> "none", raced |-> FALSE]
NoReq == [ep |-> "none", name |-> "", email |-> ""]
NoResp == [status |-> 0, detail |-> "", data |-> <<>>]
NoUnit == [op |-> "none"]

\* -------------------------------------------------- CreateStoreRequest
\* models.py:7: min_length=3, max_length=20, pattern="^[a-z0-9-]+$".  A store
\* name is a sequence of characters.
min_length == 3
max_length == 20
LowerCase == {"a", "b", "c", "d", "e", "f", "g", "h", "i", "j", "k", "l", "m",
              "n", "o", "p", "q", "r", "s", "t", "u", "v", "w", "x", "y", "z"}
Digits == {"0", "1", "2", "3", "4", "5", "6", "7", "8", "9"}
NameClass == LowerCase \cup Digits \cup {"-"}

\* s[i..j] is a non-empty run of characters of the class [a-z0-9-].
ClassRun(s, i, j) == i <= j /\ \A k \in i..j : s[k] \in NameClass

\* Variant: the pattern without its anchors, "[a-z0-9-]+".
store_name_pattern_unanchored(s) ==
    \E i, j \in 1..Len(s) : ClassRun(s, i, j)

\* The pattern is searched in the value: a match is a run s[i..j] of the
\* class that starts where ^ holds (i = 1) and ends where $ holds (the end of
\* the text, j = Len(s)).
store_name_pattern(s) ==
    \E i, j \in 1..Len(s) : i = 1 /\ j = Len(s) /\ ClassRun(s, i, j)

\* models.py:5-9: the fields of the body that fail validation.  email_ok says
\* whether owner_email passes EmailStr.
CreateStoreRequest(store_name, email_ok) ==
    {f \in {"store_name"} : \/ Len(store_name) < min_length
                            \/ Len(store_name) > max_length
                            \/ ~store_name_pattern(store_name)}
    \cup {f \in {"owner_email"} : ~email_ok}

\* The store names clients send in a POST body, with their characters: the
\* names of the stores and two names the schema does not admit.
BadNames == {"Shop", "ab"}
StoreNameChars ==
    [n \in Names \cup BadNames |->
        CASE n = "shop" -> <<"s", "h", "o", "p">>
          [] n = "cafe" -> <<"c", "a", "f", "e">>
          [] n = "Shop" -> <<"S", "h", "o", "p">>
          [] n = "ab" -> <<"a", "b">>]

\* main.py:89-90: the body of a POST is validated before the handler runs.
BodyErrors(ep, n) ==
    IF ep = "POST" THEN CreateStoreRequest(StoreNameChars[n], TRUE) ELSE {}

\* ------------------------------------------------- StoreManager._run_command
_run_command(o, timeout) ==
    IF o = "exit0" THEN [success |-> TRUE, stdout |-> "out", stderr |-> ""]
    ELSE IF o = "exit1" THEN [success |-> FALSE, stdout |-> "", stderr |-> "stderr"]
    ELSE [success |-> FALSE, stdout |-> "",
          stderr |-> "Command timed out after " \o timeout \o "s"]

check_helm_installed(o) == _run_command(o, "300").success

\* ---------------------------------------------------- KubernetesManager
\* Each wrapper operation is a function of the namespace phase and of how the
\* control-plane call ends; it yields whether it raised, the returned value,
\* the exception text and the phase afterwards.
namespace_exists(phase, o) ==
    IF o = "ok"
    THEN [raised |-> FALSE, val |-> (phase # "Absent"), exc |-> ""]
    ELSE [raised |-> TRUE, val |-> FALSE, exc |-> ExcText(o)]

create_namespace(phase, o) ==
    IF o = "ok"
    THEN IF phase = "Absent"
         THEN [raised |-> FALSE, val |-> TRUE, exc |-> "", phase |-> "Active"]
         ELSE [raised |-> FALSE, val |-> FALSE, exc |-> "", phase |-> phase]
    ELSE [raised |-> TRUE, val |-> FALSE, exc |-> ExcText(o), phase |-> phase]

delete_namespace(phase, o) ==
    IF o = "ok"
    THEN IF phase = "Absent"
         THEN [raised |-> FALSE, val |-> FALSE, exc |-> "", phase |-> phase]
         ELSE [raised |-> FALSE, val |-> TRUE, exc |-> "", phase |-> "Terminating"]
    ELSE [raised |-> TRUE, val |-> FALSE, exc |-> ExcText(o), phase |-> phase]

test_connection(o) == (o = "ok")

\* ------------------------------------------------------------------- Init
\* main.py:37-43: the orchestrator is constructed once; store_mgr is None
\* (FALSE) if the construction raised.  The cluster may already hold stores.
Init ==
    /\ store_mgr \in BOOLEAN
    /\ ns \in [Names -> {"Absent", "Active"}]
    /\ pc = [c \in Clients |-> "idle"]
    /\ req = [c \in Clients |-> NoReq]
    /\ call = [c \in Clients |-> NoCall]
    /\ resp = [c \in Clients |-> NoResp]
    /\ deleted = [n \in Names |-> FALSE]
    /\ served = 0
    /\ unit = NoUnit

Respond(c, status, detail, data) ==
    /\ resp' = [resp EXCEPT ![c] = [status |-> status, detail |-> detail, data |-> data]]
    /\ pc' = [pc EXCEPT ![c] = "done"]

\* Variant: the health handler lacks the store_mgr guard.
Request_unguarded_health(c) ==
    /\ pc[c] \in {"idle", "done"}
    /\ served < MaxRequests
    /\ served' = served + 1
    /\ \E ep \in Endpoints \ {"ROOT"}, n \in Names \cup BadNames, e \in Emails :
         /\ ep # "POST" => n \in Names
         /\ req' = [req EXCEPT ![c] = [ep |-> ep,
                                      name |-> IF ep \in {"HEALTH", "LIST"} THEN "" ELSE n,
                                      email |-> IF ep = "POST" THEN e ELSE ""]]
         /\ call' = [call EXCEPT ![c] =
                        [NoCall EXCEPT !.deletedBefore = {m \in Names : deleted[m]}]]
         /\ IF BodyErrors(ep, n) # {}
            THEN Respond(c, 422, "validation error", BodyErrors(ep, n))
            ELSE IF ~store_mgr /\ ep # "HEALTH"
            THEN Respond(c, 503, "Store Manager not initialized", <<>>)
            ELSE /\ resp' = [resp EXCEPT ![c] = NoResp]
                 /\ pc' = [pc EXCEPT ![c] = ep]
    /\ UNCHANGED <<unit, store_mgr, ns, deleted>>

\* A client sends a request: the body of a POST is validated, then the
\* handler runs up to its "if not store_mgr".
\* deletedBefore records the stores whose DELETE had succeeded by then.
Request(c) ==
    /\ pc[c] \in {"idle", "done"}
    /\ served < MaxRequests
    /\ served' = served + 1
    /\ \E ep \in Endpoints \ {"ROOT"}, n \in Names \cup BadNames, e \in Emails :
         /\ ep # "POST" => n \in Names
         /\ req' = [req EXCEPT ![c] = [ep |-> ep,
                                      name |-> IF ep \in {"HEALTH", "LIST"} THEN "" ELSE n,
                                      email |-> IF ep = "POST" THEN e ELSE ""]]
         /\ call' = [call EXCEPT ![c] =
                        [NoCall EXCEPT !.deletedBefore = {m \in Names : deleted[m]}]]
         /\ IF BodyErrors(ep, n) # {}
            THEN Respond(c, 422, "validation error", BodyErrors(ep, n))
            ELSE IF ~store_mgr
            THEN Respond(c, 503, "Store Manager not initialized", <<>>)
            ELSE /\ resp' = [resp EXCEPT ![c] = NoResp]
                 /\ pc' = [pc EXCEPT ![c] = ep]
    /\ UNCHANGED <<unit, store_mgr, ns, deleted>>

\* main.py:46-58
read_root(c) ==
    /\ pc[c] \in {"idle", "done"}
    /\ served < MaxRequests
    /\ served' = served + 1
    /\ req' = [req EXCEPT ![c] = [ep |-> "ROOT", name |-> "", email |-> ""]]
    /\ call' = [call EXCEPT ![c] = NoCall]
    /\ Respond(c, 200, "", "running")
    /\ UNCHANGED <<unit, store_mgr, ns, deleted>>

\* Variant: healthy when either check passes.
health_check_either(c) ==
    /\ pc[c] = "HEALTH"
    /\ \E o \in CallOutcomes, h \in RunOutcomes :
         LET k8s_connected == test_connection(o)
             helm_installed == check_helm_installed(h)
         IN /\ call' = [call EXCEPT ![c].query = o, ![c].helmCheck = h]
            /\ Respond(c, 200, "", [healthy |-> k8s_connected \/ helm_installed,
                                    kubernetes_connected |-> k8s_connected,
                                    helm_installed |-> helm_installed])
    /\ UNCHANGED <<unit, store_mgr, ns, req, deleted, served>>

\* main.py:61-86 (after the store_mgr guard)
health_check(c) ==
    /\ pc[c] = "HEALTH"
    /\ \E o \in CallOutcomes, h \in RunOutcomes :
         LET k8s_connected == test_connection(o)
             helm_installed == check_helm_installed(h)
         IN /\ call' = [call EXCEPT ![c].query = o, ![c].helmCheck = h]
            /\ Respond(c, 200, "", [healthy |-> k8s_connected /\ helm_installed,
                                    kubernetes_connected |-> k8s_connected,
                                    helm_installed |-> helm_installed])
    /\ UNCHANGED <<unit, store_mgr, ns, req, deleted, served>>

\* ------------------------------------------ StoreManager.create_store
\* main.py:122-127: any exception of create_store becomes a 500.
CreateFailed(c, msg) == Respond(c, 500, "Store creation failed: " \o msg, <<>>)

\* Variant: the flag reports the outcome of the retry loop.
Payload_flagged(store_name, owner_email, woocommerce_installed) ==
    [store_name |-> store_name,
     namespace |-> Namespace(store_name),
     url |-> "http://" \o store_name \o ".localhost",
     admin_url |-> "http://" \o store_name \o ".localhost/wp-admin",
     owner_email |-> owner_email,
     created_at |-> created_timestamp,
     credentials |-> [username |-> "admin", password |-> admin_password],
     woocommerce_installed |-> woocommerce_installed]

\* store_manager.py:150-162: the local woocommerce_installed of line 125 is in
\* scope, the flag is the literal True.
Payload(store_name, owner_email, woocommerce_installed) ==
    [store_name |-> store_name,
     namespace |-> Namespace(store_name),
     url |-> "http://" \o store_name \o ".localhost",
     admin_url |-> "http://" \o store_name \o ".localhost/wp-admin",
     owner_email |-> owner_email,
     created_at |-> created_timestamp,
     credentials |-> [username |-> "admin", password |-> admin_password],
     woocommerce_installed |-> TRUE]

\* main.py:116-120
CreateSucceeded(c) ==
    Respond(c, 201, "Store '" \o req[c].name \o "' created successfully",
            Payload(req[c].name, req[c].email, call'[c].installed))

\* store_manager.py:66-68
create_store_check_helm(c) ==
    /\ pc[c] = "POST"
    /\ \E present \in {check_helm_installed(h) : h \in RunOutcomes} :
         IF ~present
         THEN /\ call' = [call EXCEPT ![c].err = "Helm is not installed or not in PATH"]
              /\ CreateFailed(c, "Helm is not installed or not in PATH")
         ELSE /\ pc' = [pc EXCEPT ![c] = "c_exists"]
              /\ UNCHANGED <<resp, call>>
    /\ UNCHANGED <<unit, store_mgr, ns, req, deleted, served>>

\* The other create_store calls for the same name that have passed the
\* existence check and have not yet asked for the namespace.
Racing(c) ==
    {d \in Clients \ {c} :
        req[d].ep = "POST" /\ req[d].name = req[c].name /\ pc[d] = "c_create"}

\* store_manager.py:70-72 found no namespace.  raced records, for the calls
\* concerned, that two calls for one name are both past the check.
PassedCheck(c) ==
    call' = [d \in Clients |->
               IF d = c THEN [call[c] EXCEPT !.preCheck = "absent", !.raced = Racing(c) # {}]
               ELSE IF d \in Racing(c) THEN [call[d] EXCEPT !.raced = TRUE]
               ELSE call[d]]

\* Variant: the existence check sits inside the try block, so that the
\* "already exists" failure runs the cleanup of the except clause.
create_store_check_exists_in_try(c) ==
    /\ pc[c] = "c_exists"
    /\ \E o \in CallOutcomes :
         LET r == namespace_exists(ns[req[c].name], o) IN
         IF r.raised
         THEN /\ call' = [call EXCEPT ![c].preCheck = "raised", ![c].err = r.exc]
              /\ pc' = [pc EXCEPT ![c] = "c_except"]
              /\ UNCHANGED resp
         ELSE IF r.val
         THEN /\ call' = [call EXCEPT ![c].preCheck = "found",
                                      ![c].err = "Store '" \o req[c].name \o "' already exists"]
              /\ pc' = [pc EXCEPT ![c] = "c_except"]
              /\ UNCHANGED resp
         ELSE /\ PassedCheck(c)
              /\ pc' = [pc EXCEPT ![c] = "c_create"]
              /\ UNCHANGED resp
    /\ UNCHANGED <<unit, store_mgr, ns, req, deleted, served>>

\* store_manager.py:70-72
create_store_check_exists(c) ==
    /\ pc[c] = "c_exists"
    /\ \E o \in CallOutcomes :
         LET r == namespace_exists(ns[req[c].name], o) IN
         IF r.raised
         THEN /\ call' = [call EXCEPT ![c].preCheck = "raised", ![c].err = r.exc]
              /\ CreateFailed(c, r.exc)
         ELSE IF r.val
         THEN /\ call' = [call EXCEPT ![c].preCheck = "found",
                                      ![c].err = "Store '" \o req[c].name \o "' already exists"]
              /\ CreateFailed(c, "Store '" \o req[c].name \o "' already exists")
         ELSE /\ PassedCheck(c)
              /\ pc' = [pc EXCEPT ![c] = "c_create"]
              /\ UNCHANGED resp
    /\ UNCHANGED <<unit, store_mgr, ns, req, deleted, served>>

\* Variant: the value returned by create_namespace is not tested.
create_store_namespace_unchecked(c) ==
    /\ pc[c] = "c_create"
    /\ \E o \in CallOutcomes :
         LET n == req[c].name
             r == create_namespace(ns[n], o) IN
         /\ ns' = [ns EXCEPT ![n] = r.phase]
         /\ IF r.raised
            THEN /\ call' = [call EXCEPT ![c].createFailed = TRUE, ![c].err = r.exc]
                 /\ pc' = [pc EXCEPT ![c] = "c_except"]
                 /\ UNCHANGED deleted
            ELSE /\ call' = [call EXCEPT ![c].created = r.val, ![c].createFailed = ~r.val]
                 /\ pc' = [pc EXCEPT ![c] = "c_helm"]
                 /\ deleted' = [deleted EXCEPT ![n] = IF r.val THEN FALSE ELSE @]
    /\ UNCHANGED <<unit, store_mgr, req, resp, served>>

\* store_manager.py:81-91: inside the try block, so that a failure is handled
\* by the except clause of lines 164-171.
create_store_namespace(c) ==
    /\ pc[c] = "c_create"
    /\ \E o \in CallOutcomes :
         LET n == req[c].name
             r == create_namespace(ns[n], o) IN
         /\ ns' = [ns EXCEPT ![n] = r.phase]
         /\ IF r.raised
            THEN /\ call' = [call EXCEPT ![c].createFailed = TRUE, ![c].err = r.exc]
                 /\ pc' = [pc EXCEPT ![c] = "c_except"]
                 /\ UNCHANGED deleted
            ELSE IF ~r.val
            THEN /\ call' = [call EXCEPT ![c].createFailed = TRUE,
                                         ![c].err = "Failed to create namespace " \o Namespace(n)]
                 /\ pc' = [pc EXCEPT ![c] = "c_except"]
                 /\ UNCHANGED deleted
            ELSE /\ call' = [call EXCEPT ![c].created = TRUE]
                 /\ pc' = [pc EXCEPT ![c] = "c_helm"]
                 /\ deleted' = [deleted EXCEPT ![n] = FALSE]
    /\ UNCHANGED <<unit, store_mgr, req, resp, served>>

\* store_manager.py:93-120
create_store_helm_install(c) ==
    /\ pc[c] = "c_helm"
    /\ \E h \in RunOutcomes :
         LET r == _run_command(h, "360") IN
         IF ~r.success
         THEN /\ call' = [call EXCEPT ![c].helm = "failed", ![c].stderr = r.stderr]
              /\ pc' = [pc EXCEPT ![c] = "c_helm_cleanup"]
         ELSE /\ call' = [call EXCEPT ![c].helm = "ok"]
              /\ pc' = [pc EXCEPT ![c] = "c_plugin"]
    /\ UNCHANGED <<unit, store_mgr, ns, req, resp, deleted, served>>

\* store_manager.py:116-118: the delete call is not guarded, so an exception
\* of delete_namespace reaches the except clause in place of the one of
\* line 118.
create_store_helm_cleanup(c) ==
    /\ pc[c] = "c_helm_cleanup"
    /\ \E o \in CallOutcomes :
         LET n == req[c].name
             r == delete_namespace(ns[n], o) IN
         /\ ns' = [ns EXCEPT ![n] = r.phase]
         /\ call' = [call EXCEPT ![c].delCalls = @ + 1,
                                 ![c].err = IF r.raised THEN r.exc
                                            ELSE "Helm installation failed: " \o call[c].stderr]
         /\ pc' = [pc EXCEPT ![c] = "c_except"]
    /\ UNCHANGED <<unit, store_mgr, req, resp, deleted, served>>

\* store_manager.py:164-171: cleanup, its own failure swallowed, then re-raise.
create_store_except(c) ==
    /\ pc[c] = "c_except"
    /\ \E o \in CallOutcomes :
         LET n == req[c].name
             r == delete_namespace(ns[n], o) IN
         /\ ns' = [ns EXCEPT ![n] = r.phase]
         /\ call' = [call EXCEPT ![c].delCalls = @ + 1]
         /\ CreateFailed(c, call[c].err)
    /\ UNCHANGED <<unit, store_mgr, req, deleted, served>>

\* store_manager.py:173-213
_install_woocommerce(getPod, pod_name, install) ==
    LET g == _run_command(getPod, "300") IN
    IF ~g.success \/ pod_name = "" THEN FALSE
    ELSE _run_command(install, "120").success

\* store_manager.py:215-268
_enable_cod_payment(getPod, pod_name, first, alt) ==
    LET g == _run_command(getPod, "300") IN
    IF ~g.success \/ pod_name = "" THEN FALSE
    ELSE IF _run_command(first, "30").success THEN TRUE
    ELSE _run_command(alt, "30").success

PodNames == {"", "wordpress-0"}

\* Variant: exhausting the attempts raises instead of only logging a warning.
create_store_plugin_attempt_fatal(c) ==
    /\ pc[c] = "c_plugin"
    /\ call[c].attempts < max_retries
    /\ \E escaped \in BOOLEAN,
          result \in {_install_woocommerce(g, pod, i) :
                        g \in RunOutcomes, pod \in PodNames, i \in RunOutcomes} :
         LET attempt == call[c].attempts
             ok == ~escaped /\ result
             pause == escaped /\ attempt < max_retries - 1
             last == attempt = max_retries - 1
         IN
         /\ call' = [call EXCEPT ![c].attempts = @ + 1,
                                 ![c].installed = ok,
                                 ![c].sleeps = IF pause THEN @ + 1 ELSE @,
                                 ![c].err = IF ~ok /\ last
                                            THEN "WooCommerce installation failed" ELSE @]
         /\ pc' = [pc EXCEPT ![c] = IF ok THEN "c_cod"
                                    ELSE IF last THEN "c_except" ELSE "c_plugin"]
         /\ UNCHANGED resp
    /\ UNCHANGED <<unit, store_mgr, ns, req, deleted, served>>

\* Variant: after the last failed attempt the call waits for the plugin
\* instead of leaving the loop.
create_store_plugin_attempt_waits(c) ==
    /\ pc[c] = "c_plugin"
    /\ call[c].attempts < max_retries
    /\ \E escaped \in BOOLEAN,
          result \in {_install_woocommerce(g, pod, i) :
                        g \in RunOutcomes, pod \in PodNames, i \in RunOutcomes} :
         LET attempt == call[c].attempts
             ok == ~escaped /\ result
             pause == escaped /\ attempt < max_retries - 1
         IN
         /\ call' = [call EXCEPT ![c].attempts = @ + 1,
                                 ![c].installed = ok,
                                 ![c].sleeps = IF pause THEN @ + 1 ELSE @]
         /\ pc' = [pc EXCEPT ![c] = IF ok THEN "c_cod" ELSE "c_plugin"]
         /\ UNCHANGED resp
    /\ UNCHANGED <<unit, store_mgr, ns, req, deleted, served>>

\* store_manager.py:122-140 and 149-162: one iteration of the retry loop.
\* escaped: an exception leaves _install_woocommerce (line 132); the commands
\* themselves never raise, _run_command turns every failure into a result.
create_store_plugin_attempt(c) ==
    /\ pc[c] = "c_plugin"
    /\ call[c].attempts < max_retries
    /\ \E escaped \in BOOLEAN,
          result \in {_install_woocommerce(g, pod, i) :
                        g \in RunOutcomes, pod \in PodNames, i \in RunOutcomes} :
         LET attempt == call[c].attempts
             ok == ~escaped /\ result
             pause == escaped /\ attempt < max_retries - 1
             last == attempt = max_retries - 1
         IN
         /\ call' = [call EXCEPT ![c].attempts = @ + 1,
                                 ![c].installed = ok,
                                 ![c].sleeps = IF pause THEN @ + 1 ELSE @]
         /\ IF ok
            THEN /\ pc' = [pc EXCEPT ![c] = "c_cod"]
                 /\ UNCHANGED resp
            ELSE IF last
            THEN CreateSucceeded(c)
            ELSE /\ pc' = [pc EXCEPT ![c] = "c_plugin"]
                 /\ UNCHANGED resp
    /\ UNCHANGED <<unit, store_mgr, ns, req, deleted, served>>

\* How the payment step can end: _enable_cod_payment returns true or false,
\* or an exception leaves it (line 146).
CodResults ==
    {"raised"} \cup
    {IF _enable_cod_payment(g, pod, f, a) THEN "true" ELSE "false" :
        g \in RunOutcomes, pod \in PodNames, f \in RunOutcomes, a \in RunOutcomes}

\* Variant: a payment step that returns false makes the creation fail.
create_store_cod_rollback(c) ==
    /\ pc[c] = "c_cod"
    /\ \E result \in CodResults :
         /\ call' = [call EXCEPT ![c].codTried = TRUE, ![c].cod = result,
                                 ![c].err = IF result = "false" THEN "COD not enabled" ELSE @]
         /\ IF result = "false"
            THEN /\ pc' = [pc EXCEPT ![c] = "c_except"]
                 /\ UNCHANGED resp
            ELSE CreateSucceeded(c)
    /\ UNCHANGED <<unit, store_mgr, ns, req, deleted, served>>

\* Variant: an exception of the payment step is not caught.
create_store_cod_fatal(c) ==
    /\ pc[c] = "c_cod"
    /\ \E result \in CodResults :
         /\ call' = [call EXCEPT ![c].codTried = TRUE, ![c].cod = result,
                                 ![c].err = IF result = "raised" THEN "COD failed" ELSE @]
         /\ IF result = "raised"
            THEN /\ pc' = [pc EXCEPT ![c] = "c_except"]
                 /\ UNCHANGED resp
            ELSE CreateSucceeded(c)
    /\ UNCHANGED <<unit, store_mgr, ns, req, deleted, served>>

\* store_manager.py:141-162: the payment step, its failure only logged.
create_store_cod(c) ==
    /\ pc[c] = "c_cod"
    /\ \E result \in CodResults :
         /\ call' = [call EXCEPT ![c].codTried = TRUE, ![c].cod = result]
         /\ CreateSucceeded(c)
    /\ UNCHANGED <<unit, store_mgr, ns, req, deleted, served>>

create_store(c) ==
    \/ create_store_check_helm(c)
    \/ create_store_check_exists(c)
    \/ create_store_namespace(c)
    \/ create_store_helm_install(c)
    \/ create_store_helm_cleanup(c)
    \/ create_store_except(c)
    \/ create_store_plugin_attempt(c)
    \/ create_store_cod(c)

\* ------------------------------------------------------------ list_stores
\* The control plane lists namespaces in name order.
NameOrder == <<"cafe", "shop">>

\* A namespace object of the control plane: its name, its store-name and app
\* labels and its phase.
NsObject(n, app, phase) ==
    [name |-> Namespace(n), store_name |-> n, app |-> app, phase |-> phase]

\* The namespaces of the cluster: every one was created by create_namespace
\* (kubernetes_manager.py:46-50) and so carries the label app=store.
ClusterItems(cluster) ==
    LET present(n) == cluster[n] # "Absent"
        names == SelectSeq(NameOrder, present)
    IN [i \in 1..Len(names) |-> NsObject(names[i], "store", cluster[names[i]])]

\* v1.list_namespace(label_selector="app=store") as the control plane answers.
list_namespace(items, app) ==
    LET selected(e) == e.app = app IN SelectSeq(items, selected)

\* kubernetes_manager.py:77-101: the namespaces labelled app=store, or [] on
\* an ApiException; any other error is not caught.
list_store_namespaces(items, o) ==
    IF o = "ok"
    THEN LET found == list_namespace(items, "store")
             entry(e) == [name |-> e.name, store_name |-> e.store_name, status |-> e.phase]
         IN [raised |-> FALSE, val |-> [i \in 1..Len(found) |-> entry(found[i])], exc |-> ""]
    ELSE IF o = "api_error"
    THEN [raised |-> FALSE, val |-> <<>>, exc |-> ""]
    ELSE [raised |-> TRUE, val |-> <<>>, exc |-> ExcText(o)]

\* Variant: the Terminating namespaces are not skipped.
list_stores_unfiltered(namespaces) ==
    LET summary(e) == [name |-> e.store_name, namespace |-> e.name,
                       url |-> "http://" \o e.store_name \o ".localhost",
                       status |-> e.status]
    IN [i \in 1..Len(namespaces) |-> summary(namespaces[i])]

\* store_manager.py:270-296
list_stores(namespaces) ==
    LET kept(e) == e.status # "Terminating"
        summary(e) == [name |-> e.store_name, namespace |-> e.name,
                       url |-> "http://" \o e.store_name \o ".localhost",
                       status |-> e.status]
        live == SelectSeq(namespaces, kept)
    IN [i \in 1..Len(live) |-> summary(live[i])]

\* main.py:130-168 (after the store_mgr guard)
list_stores_handler(c) ==
    /\ pc[c] = "LIST"
    /\ \E o \in CallOutcomes :
         LET r == list_store_namespaces(ClusterItems(ns), o) IN
         /\ call' = [call EXCEPT ![c].query = o, ![c].err = r.exc]
         /\ IF r.raised
            THEN Respond(c, 500, "Failed to list stores: " \o r.exc, <<>>)
            ELSE LET stores == list_stores(r.val) IN
                 Respond(c, 200, "", [count |-> Len(stores), stores |-> stores])
    /\ UNCHANGED <<unit, store_mgr, ns, req, deleted, served>>

\* ------------------------------------------------------- get_store_status
\* What the control plane reports for the pods of a namespace: for each pod
\* the ready flags of its container statuses (none when it reports no status).
MaxPods == 2
MaxContainers == 2
ContainerStatuses == UNION {[1..k -> BOOLEAN] : k \in 0..MaxContainers}
PodLists == UNION {[1..k -> ContainerStatuses] : k \in 0..MaxPods}

\* kubernetes_manager.py:145
PodReady(container_statuses) ==
    IF container_statuses # <<>>
    THEN \A i \in 1..Len(container_statuses) : container_statuses[i]
    ELSE FALSE

\* kubernetes_manager.py:136-151
get_pods_in_namespace(pods, o) ==
    IF o = "ok"
    THEN [raised |-> FALSE, val |-> [i \in 1..Len(pods) |-> [ready |-> PodReady(pods[i])]],
          exc |-> "", query |-> o]
    ELSE IF o = "api_error" THEN [raised |-> FALSE, val |-> <<>>, exc |-> "", query |-> o]
    ELSE [raised |-> TRUE, val |-> <<>>, exc |-> ExcText(o), query |-> o]

\* Every way the pod query of get_store_status can end.
PodQueryResults == {get_pods_in_namespace(pods, o) : pods \in PodLists, o \in CallOutcomes}

\* Variant: ready is all(...) also for an empty pod list.
StatusInfo_all(pods) ==
    [exists |-> TRUE, pods |-> pods,
     ready |-> \A i \in 1..Len(pods) : pods[i].ready]

\* store_manager.py:350-354
StatusInfo(pods) ==
    [exists |-> TRUE, pods |-> pods,
     ready |-> IF pods # <<>> THEN \A i \in 1..Len(pods) : pods[i].ready ELSE FALSE]

\* main.py:184-206 with store_manager.py:345-346
get_store_status_exists(c) ==
    /\ pc[c] = "GET"
    /\ \E o \in CallOutcomes :
         LET n == req[c].name
             r == namespace_exists(ns[n], o) IN
         IF r.raised
         THEN /\ call' = [call EXCEPT ![c].preCheck = "raised", ![c].err = r.exc]
              /\ Respond(c, 500, "Failed to get store status: " \o r.exc, <<>>)
         ELSE IF ~r.val
         THEN /\ call' = [call EXCEPT ![c].preCheck = "absent",
                                      ![c].status_info = [exists |-> FALSE]]
              /\ Respond(c, 404, "Store '" \o n \o "' not found", <<>>)
         ELSE /\ call' = [call EXCEPT ![c].preCheck = "found"]
              /\ pc' = [pc EXCEPT ![c] = "g_pods"]
              /\ UNCHANGED resp
    /\ UNCHANGED <<unit, store_mgr, ns, req, deleted, served>>

\* main.py:193-206 with store_manager.py:348-354
get_store_status_pods(c) ==
    /\ pc[c] = "g_pods"
    /\ \E r \in PodQueryResults :
         LET n == req[c].name IN
         /\ call' = [call EXCEPT ![c].query = r.query, ![c].err = r.exc,
                                 ![c].status_info = IF r.raised THEN @ ELSE StatusInfo(r.val)]
         /\ IF r.raised
            THEN Respond(c, 500, "Failed to get store status: " \o r.exc, <<>>)
            ELSE Respond(c, 200, "", [store_name |-> n, namespace |-> Namespace(n),
                                      status |-> StatusInfo(r.val)])
    /\ UNCHANGED <<unit, store_mgr, ns, req, deleted, served>>

\* ----------------------------------------------------------- delete_store
\* Variant: the handler has no 404 branch and goes on to delete_store.
delete_store_precheck_no404(c) ==
    /\ pc[c] = "DELETE"
    /\ \E o \in CallOutcomes :
         LET n == req[c].name
             r == namespace_exists(ns[n], o) IN
         IF r.raised
         THEN /\ call' = [call EXCEPT ![c].preCheck = "raised", ![c].err = r.exc]
              /\ Respond(c, 500, "Internal Server Error", <<>>)
         ELSE /\ call' = [call EXCEPT ![c].preCheck = IF r.val THEN "found" ELSE "absent"]
              /\ pc' = [pc EXCEPT ![c] = "d_uninstall"]
              /\ UNCHANGED resp
    /\ UNCHANGED <<unit, store_mgr, ns, req, deleted, served>>

\* main.py:228-233: the pre-check is outside the try block; an exception of
\* namespace_exists leaves the handler unhandled (the framework's plain 500).
delete_store_precheck(c) ==
    /\ pc[c] = "DELETE"
    /\ \E o \in CallOutcomes :
         LET n == req[c].name
             r == namespace_exists(ns[n], o) IN
         IF r.raised
         THEN /\ call' = [call EXCEPT ![c].preCheck = "raised", ![c].err = r.exc]
              /\ Respond(c, 500, "Internal Server Error", <<>>)
         ELSE IF ~r.val
         THEN /\ call' = [call EXCEPT ![c].preCheck = "absent"]
              /\ Respond(c, 404, "Store '" \o n \o "' not found", <<>>)
         ELSE /\ call' = [call EXCEPT ![c].preCheck = "found"]
              /\ pc' = [pc EXCEPT ![c] = "d_uninstall"]
              /\ UNCHANGED resp
    /\ UNCHANGED <<unit, store_mgr, ns, req, deleted, served>>

\* Variant: a failed helm uninstall raises and the namespace is left alone.
delete_store_uninstall_fatal(c) ==
    /\ pc[c] = "d_uninstall"
    /\ \E r \in {_run_command(h, "300") : h \in RunOutcomes} :
         /\ call' = [call EXCEPT ![c].uninstallRan = TRUE, ![c].helm = IF r.success THEN "ok" ELSE "failed"]
         /\ IF r.success
            THEN /\ pc' = [pc EXCEPT ![c] = "d_delete"]
                 /\ UNCHANGED resp
            ELSE Respond(c, 500, "Store deletion failed: Helm uninstall failed: " \o r.stderr, <<>>)
    /\ UNCHANGED <<unit, store_mgr, ns, req, deleted, served>>

\* store_manager.py:315-325: the result of helm uninstall is only logged.
delete_store_uninstall(c) ==
    /\ pc[c] = "d_uninstall"
    /\ \E r \in {_run_command(h, "300") : h \in RunOutcomes} :
         /\ call' = [call EXCEPT ![c].uninstallRan = TRUE, ![c].helm = IF r.success THEN "ok" ELSE "failed"]
         /\ pc' = [pc EXCEPT ![c] = "d_delete"]
    /\ UNCHANGED <<unit, store_mgr, ns, req, resp, deleted, served>>

\* store_manager.py:327-333 and main.py:235-249
delete_store_namespace(c) ==
    /\ pc[c] = "d_delete"
    /\ \E o \in CallOutcomes :
         LET n == req[c].name
             r == delete_namespace(ns[n], o) IN
         /\ ns' = [ns EXCEPT ![n] = r.phase]
         /\ call' = [call EXCEPT ![c].delCalls = @ + 1,
                                 ![c].delResult = IF r.raised THEN "raised"
                                                  ELSE IF r.val THEN "true" ELSE "false",
                                 ![c].err = IF r.raised THEN r.exc
                                            ELSE IF r.val THEN ""
                                            ELSE "Failed to delete namespace " \o Namespace(n)]
         /\ IF r.raised
            THEN /\ Respond(c, 500, "Store deletion failed: " \o r.exc, <<>>)
                 /\ UNCHANGED deleted
            ELSE IF ~r.val
            THEN /\ Respond(c, 500, "Store deletion failed: Failed to delete namespace "
                                     \o Namespace(n), <<>>)
                 /\ UNCHANGED deleted
            ELSE /\ Respond(c, 200, "Store '" \o n \o "' deleted successfully", n)
                 /\ deleted' = [deleted EXCEPT ![n] = TRUE]
    /\ UNCHANGED <<unit, store_mgr, req, served>>

delete_store(c) ==
    \/ delete_store_precheck(c)
    \/ delete_store_uninstall(c)
    \/ delete_store_namespace(c)

\* ---------------------------------------------------------------- cluster
\* The control plane finishes the deletion of a Terminating namespace.
Finalize(n) ==
    /\ ns[n] = "Terminating"
    /\ ns' = [ns EXCEPT ![n] = "Absent"]
    /\ UNCHANGED <<unit, store_mgr, pc, req, call, resp, deleted, served>>

Next ==
    \/ \E c \in Clients :
        \/ Request(c)
        \/ read_root(c)
        \/ health_check(c)
        \/ create_store(c)
        \/ list_stores_handler(c)
        \/ get_store_status_exists(c)
        \/ get_store_status_pods(c)
        \/ delete_store(c)
    \/ \E n \in Names : Finalize(n)

Spec == Init /\ [][Next]_vars

\* Every external command returns (subprocess.run with a timeout,
\* store_manager.py:28-40) and every control-plane call is taken to return:
\* a create_store call that can take its next step eventually takes it.
\* The steps that bear on the termination of create_store: the POST requests
\* of both clients, which interleave, and the control plane finishing the
\* deletions their cleanups started.
PostRequest(c) == Request(c) /\ req'[c].ep = "POST"
CreateNext ==
    \/ \E c \in Clients :
        \/ PostRequest(c)
        \/ create_store(c)
    \/ \E n \in Names : Finalize(n)
LiveSpec == Init /\ [][CreateNext]_vars /\ \A c \in Clients : WF_vars(create_store(c))

\* ================================================================ UnitSpec
\* Single functions applied to inputs drawn from bounded sets.

\* Namespaces the control plane may hold when list_stores is evaluated.
MaxItems == 3
ItemNames == <<"cafe", "deli", "shop", "tea", "zoo">>
ItemLists ==
    UNION {{[i \in 1..k |-> NsObject(ItemNames[i], a[i], ph[i])] :
              a \in [1..k -> {"store", "blog"}],
              ph \in [1..k -> {"Active", "Terminating"}]} : k \in 0..MaxItems}

ListInputs == {[op |-> "list_stores", items |-> it, outcome |-> o, state |-> "drawn"] :
                 it \in ItemLists, o \in CallOutcomes}

\* Inputs of the two list operations of the wrapper: what the control plane
\* holds and how its answer ends.
NamespaceQueryInputs ==
    {[op |-> "list_store_namespaces", items |-> it, outcome |-> o, state |-> "drawn"] :
        it \in ItemLists, o \in CallOutcomes}
PodQueryInputs ==
    {[op |-> "get_pods_in_namespace", items |-> pods, outcome |-> o, state |-> "drawn"] :
        pods \in PodLists, o \in CallOutcomes}

\* Bodies of POST /stores: names made of an optional first character, a run
\* of one character and an optional last character, so that every length from
\* 0 to MaxNameLen + 2 and every position of a character outside the class
\* occurs.
MaxNameLen == 21
NameAlphabet == {"a", "z", "0", "9", "-", "A", "_", "\n"}
Affixes == {<<>>} \cup {<<ch>> : ch \in NameAlphabet}
StoreNameInputs ==
    {pre \o [i \in 1..k |-> ch] \o suf :
        pre \in Affixes, suf \in Affixes, ch \in {"b", "-"}, k \in 0..MaxNameLen}
PostInputs ==
    {[op |-> "post_stores", store_name |-> n, email_ok |-> e, state |-> "drawn"] :
        n \in StoreNameInputs, e \in BOOLEAN}

UnitInputs == ListInputs \cup NamespaceQueryInputs \cup PodQueryInputs \cup PostInputs

UnitInit ==
    /\ store_mgr = TRUE
    /\ ns = [n \in Names |-> "Absent"]
    /\ pc = [c \in Clients |-> "idle"]
    /\ req = [c \in Clients |-> NoReq]
    /\ call = [c \in Clients |-> NoCall]
    /\ resp = [c \in Clients |-> NoResp]
    /\ deleted = [n \in Names |-> FALSE]
    /\ served = 0
    /\ unit \in UnitInputs

UnitFrame == UNCHANGED <<store_mgr, ns, pc, req, call, resp, deleted, served>>

\* store_manager.py:277-296: list_stores on what the wrapper returns.
apply_list_stores ==
    /\ unit.op = "list_stores" /\ unit.state = "drawn"
    /\ LET r == list_store_namespaces(unit.items, unit.outcome) IN
       unit' = [op |-> "list_stores", items |-> unit.items, outcome |-> unit.outcome,
                state |-> IF r.raised THEN "raised" ELSE "returned",
                out |-> IF r.raised THEN <<>> ELSE list_stores(r.val)]
    /\ UnitFrame

\* kubernetes_manager.py:77-101
apply_list_store_namespaces ==
    /\ unit.op = "list_store_namespaces" /\ unit.state = "drawn"
    /\ LET r == list_store_namespaces(unit.items, unit.outcome) IN
       unit' = [op |-> unit.op, items |-> unit.items, outcome |-> unit.outcome,
                state |-> IF r.raised THEN "raised" ELSE "returned",
                out |-> r.val]
    /\ UnitFrame

\* kubernetes_manager.py:136-151
apply_get_pods_in_namespace ==
    /\ unit.op = "get_pods_in_namespace" /\ unit.state = "drawn"
    /\ LET r == get_pods_in_namespace(unit.items, unit.outcome) IN
       unit' = [op |-> unit.op, items |-> unit.items, outcome |-> unit.outcome,
                state |-> IF r.raised THEN "raised" ELSE "returned",
                out |-> r.val]
    /\ UnitFrame

\* main.py:89-90: the framework builds the CreateStoreRequest from the body
\* before it calls the handler; a body that fails validation is answered 422
\* and the handler (line 102 onwards) is not entered.
post_stores_validation ==
    /\ unit.op = "post_stores" /\ unit.state = "drawn"
    /\ LET errors == CreateStoreRequest(unit.store_name, unit.email_ok) IN
       unit' = [op |-> unit.op, store_name |-> unit.store_name, email_ok |-> unit.email_ok,
                state |-> IF errors # {} THEN "rejected" ELSE "dispatched",
                status |-> IF errors # {} THEN 422 ELSE 0,
                errors |-> errors,
                entered |-> errors = {}]
    /\ UnitFrame

UnitNext ==
    \/ post_stores_validation
    \/ apply_list_stores
    \/ apply_list_store_namespaces
    \/ apply_get_pods_in_namespace

UnitSpec == UnitInit /\ [][UnitNext]_vars

\* ================================================================ claims
Post(c) == req[c].ep = "POST"
Done(c) == pc[c] = "done"
InstallerError(c) == "Store creation failed: Helm installation failed: " \o call[c].stderr

\* C1: when the helm install of create_store fails, the call ends with the
\* namespace deleted (no longer Active) and with a failure that carries the
\* installer's captured error text.
C1_HelmFailureRollsBack ==
    [][\A c \in Clients :
         (Post(c) /\ call[c].helm = "failed" /\ pc[c] = "c_except" /\ pc'[c] = "done")
         => /\ resp'[c].status = 500
            /\ resp'[c].detail = InstallerError(c)
            /\ ns'[req[c].name] # "Active"]_vars

\* C2: a POST /stores whose existence check runs while the namespace exists
\* ends there with an error, without any namespace delete call and with the
\* cluster left as it was.
C2_ExistingStoreRejectedUntouched ==
    [][\A c \in Clients :
         (pc[c] = "c_exists" /\ ns[req[c].name] # "Absent" /\ pc'[c] # "c_exists")
         => /\ pc'[c] = "done"
            /\ resp'[c].status = 500
            /\ call'[c].delCalls = 0
            /\ ~call'[c].created
            /\ ns' = ns]_vars

C2_Witness ==
    \E c \in Clients :
        /\ Post(c) /\ Done(c) /\ call[c].preCheck = "found"
        /\ resp[c].detail = "Store creation failed: Store '" \o req[c].name \o "' already exists"
        /\ ns[req[c].name] = "Active"

\* C3: when the namespace creation of create_store fails, the call runs no
\* install, plugin or payment step and issues no namespace delete call.
C3_CreateFailureNoCleanup ==
    \A c \in Clients :
        (Post(c) /\ call[c].createFailed /\ Done(c))
        => /\ call[c].delCalls = 0
           /\ call[c].helm = "none"
           /\ call[c].attempts = 0
           /\ ~call[c].codTried

\* C4: when all 5 plugin-install attempts fail, create_store returns its
\* payload (store name, namespace store-<name>, URL, credentials) and issues
\* no namespace delete call.
C4_PluginExhaustionStillSucceeds ==
    \A c \in Clients :
        (Post(c) /\ call[c].attempts = max_retries /\ ~call[c].installed)
        => /\ Done(c)
           /\ resp[c].status = 201
           /\ call[c].delCalls = 0
           /\ resp[c].data.store_name = req[c].name
           /\ resp[c].data.namespace = "store-" \o req[c].name
           /\ resp[c].data.url = "http://" \o req[c].name \o ".localhost"
           /\ resp[c].data.credentials = [username |-> "admin", password |-> admin_password]

C4_Witness ==
    \E c \in Clients :
        /\ Post(c) /\ Done(c)
        /\ call[c].attempts = max_retries /\ ~call[c].installed
        /\ resp[c].status = 201

\* C5: the plugin install is attempted at most 5 times, never after a
\* successful attempt, and a pause precedes every attempt but the first.
C5_RetryLoopPauses ==
    \A c \in Clients :
        Post(c) =>
          /\ call[c].attempts <= max_retries
          /\ (call[c].installed => pc[c] # "c_plugin")
          /\ (pc[c] = "c_plugin" => call[c].sleeps = call[c].attempts)

\* C6: whenever create_store fails after a failed helm install, the error it
\* raises is the installer error.
C6_InstallerErrorNeverReplaced ==
    \A c \in Clients :
        (Post(c) /\ Done(c) /\ call[c].helm = "failed")
        => resp[c].detail = InstallerError(c)

Listed(data, n) == \E i \in 1..Len(data.stores) : data.stores[i].name = n

\* C7: every GET /stores/{name} sent after DELETE /stores/{name} succeeded,
\* and answered by the control plane before the store is created again,
\* returns 404, and every such GET /stores listing omits the store.
C7_DeletedStoreInvisible ==
    [][\A c \in Clients :
         /\ (pc[c] = "GET" /\ pc'[c] # "GET" /\ call'[c].preCheck # "raised"
               /\ req[c].name \in call[c].deletedBefore /\ deleted[req[c].name])
            => (pc'[c] = "done" /\ resp'[c].status = 404)
         /\ (pc[c] = "LIST" /\ pc'[c] = "done" /\ resp'[c].status = 200)
            => \A n \in call[c].deletedBefore :
                  deleted[n] => ~Listed(resp'[c].data, n)]_vars

\* C8: a DELETE /stores/{name} whose pre-check runs while no namespace
\* exists ends there, with 404 when the control plane answers the read,
\* having issued neither a helm uninstall nor a namespace delete call and
\* leaving the cluster as it was.
C8_DeleteMissingIsInert ==
    [][\A c \in Clients :
         (pc[c] = "DELETE" /\ ns[req[c].name] = "Absent" /\ pc'[c] # "DELETE")
         => /\ pc'[c] = "done"
            /\ (call'[c].preCheck # "raised" => resp'[c].status = 404)
            /\ ~call'[c].uninstallRan
            /\ call'[c].delCalls = 0
            /\ ns' = ns]_vars

C8_Witness ==
    \E c \in Clients :
        /\ req[c].ep = "DELETE" /\ Done(c)
        /\ call[c].preCheck = "absent"
        /\ resp[c].status = 404
        /\ ns[req[c].name] = "Absent"

\* C9 as stated: with the orchestrator not constructed, every endpoint,
\* GET / included, answers 503, and the orchestrator stays unconstructed.
C9_EveryEndpoint503 ==
    [][~store_mgr =>
         /\ ~store_mgr'
         /\ \A c \in Clients : pc'[c] = "done" => resp'[c].status = 503]_vars

\* C9 amended: with the orchestrator not constructed, every endpoint other
\* than GET / answers 503 to every request the schema layer admits (a POST
\* body that fails validation is answered 422) and GET / answers 200; the
\* orchestrator stays unconstructed.
C9_GuardedEndpoints503 ==
    [][~store_mgr =>
         /\ ~store_mgr'
         /\ \A c \in Clients :
              /\ pc'[c] \in {"idle", "done"}
              /\ pc'[c] = "done" =>
                   resp'[c].status =
                      IF req'[c].ep = "ROOT" THEN 200
                      ELSE IF BodyErrors(req'[c].ep, req'[c].name) # {} THEN 422
                      ELSE 503]_vars

C9_Witness ==
    /\ ~store_mgr
    /\ \E c, d \in Clients :
         /\ Done(c) /\ req[c].ep = "ROOT" /\ resp[c].status = 200
         /\ Done(d) /\ req[d].ep # "ROOT" /\ resp[d].status = 503

\* C10 as stated: every POST /stores whose existence check found no
\* namespace returns 201 with data.namespace = store-<name>.
C10_AlwaysCreated ==
    \A c \in Clients :
        (Post(c) /\ Done(c) /\ call[c].preCheck = "absent")
        => /\ resp[c].status = 201
           /\ resp[c].data.namespace = "store-" \o req[c].name

\* C10 amended: a POST /stores whose existence check found no namespace
\* returns 201 with data.namespace = store-<name> when the namespace
\* creation and the helm install of the call succeed, and 500 otherwise.
C10_CreatedWhenInstalled ==
    \A c \in Clients :
        (Post(c) /\ Done(c) /\ call[c].preCheck = "absent")
        => IF call[c].created /\ call[c].helm = "ok"
           THEN /\ resp[c].status = 201
                /\ resp[c].data.namespace = "store-" \o req[c].name
           ELSE resp[c].status = 500

C10_Witness ==
    \E c \in Clients :
        /\ Post(c) /\ Done(c) /\ call[c].preCheck = "absent"
        /\ call[c].helm = "ok"
        /\ resp[c].status = 201
        /\ resp[c].data.namespace = "store-" \o req[c].name

\* C11: when the namespace query is answered, list_stores returns, in the
\* order of the query, exactly the namespaces labelled app=store whose phase
\* is not Terminating.
C11_ListIsLabelledAndLive ==
    (unit.op = "list_stores" /\ unit.state = "returned" /\ unit.outcome = "ok")
    => LET want == {i \in 1..Len(unit.items) :
                      unit.items[i].app = "store" /\ unit.items[i].phase # "Terminating"}
           got == {unit.out[j].namespace : j \in 1..Len(unit.out)}
       IN /\ Len(unit.out) = Cardinality(want)
          /\ got = {unit.items[i].name : i \in want}
          /\ \A j \in 1..Len(unit.out) : unit.out[j].status # "Terminating"

C11_Witness ==
    /\ unit.op = "list_stores" /\ unit.state = "returned" /\ unit.outcome = "ok"
    /\ \E i, j, k \in 1..Len(unit.items) :
         /\ unit.items[i].app = "store" /\ unit.items[i].phase = "Terminating"
         /\ unit.items[j].app = "store" /\ unit.items[j].phase = "Active"
         /\ unit.items[k].app = "blog" /\ unit.items[k].phase = "Active"
    /\ Len(unit.out) = 1

Get(c) == req[c].ep = "GET"

\* C12: for an existing namespace get_store_status reports ready = true
\* exactly when the pod list is non-empty and every pod in it is ready; for
\* an absent namespace it returns exists = false and nothing else.
C12_ReadyIffAllPodsReady ==
    \A c \in Clients :
        (Get(c) /\ Done(c)) =>
          /\ call[c].preCheck = "absent" =>
               /\ DOMAIN call[c].status_info = {"exists"}
               /\ ~call[c].status_info.exists
               /\ resp[c].status = 404
          /\ (call[c].preCheck = "found" /\ call[c].query \in {"ok", "api_error"}) =>
               LET info == call[c].status_info IN
               /\ info.exists
               /\ resp[c].data.status = info
               /\ info.ready = TRUE <=>
                    (Len(info.pods) > 0 /\ \A i \in 1..Len(info.pods) : info.pods[i].ready = TRUE)
               /\ info.ready \in BOOLEAN

C12_Witness ==
    \E c \in Clients :
        /\ Get(c) /\ Done(c) /\ call[c].preCheck = "found"
        /\ Len(call[c].status_info.pods) = 2
        /\ \A i \in 1..2 : call[c].status_info.pods[i].ready
        /\ call[c].status_info.ready

\* C13: with the orchestrator constructed, GET /health answers 200 with
\* kubernetes_connected false for a failing probe of either kind,
\* helm_installed true only for a zero exit code, and healthy true exactly
\* when both are true.
C13_HealthIsConjunction ==
    \A c \in Clients :
        (req[c].ep = "HEALTH" /\ Done(c) /\ store_mgr) =>
          LET h == resp[c].data IN
          /\ resp[c].status = 200
          /\ h.kubernetes_connected = (call[c].query = "ok")
          /\ h.helm_installed = (call[c].helmCheck = "exit0")
          /\ (~h.kubernetes_connected \/ ~h.helm_installed) => h.healthy = FALSE
          /\ (h.kubernetes_connected /\ h.helm_installed) => h.healthy = TRUE

C13_Witness ==
    \E c \in Clients :
        /\ req[c].ep = "HEALTH" /\ Done(c) /\ store_mgr
        /\ call[c].query = "conn_error" /\ call[c].helmCheck = "exit0"
        /\ resp[c].status = 200
        /\ ~resp[c].data.kubernetes_connected /\ ~resp[c].data.healthy

\* The payload of a successful create_store, written out.
SuccessPayload(c) ==
    [store_name |-> req[c].name,
     namespace |-> "store-" \o req[c].name,
     url |-> "http://" \o req[c].name \o ".localhost",
     admin_url |-> "http://" \o req[c].name \o ".localhost/wp-admin",
     owner_email |-> req[c].email,
     created_at |-> created_timestamp,
     credentials |-> [username |-> "admin", password |-> admin_password],
     woocommerce_installed |-> TRUE]

\* C14: the payment step is attempted only after a successful plugin
\* install attempt, it is attempted in every call in which one succeeded,
\* and however it ends the call returns the success payload without a
\* namespace delete call.
C14_PaymentStepNeverFatal ==
    \A c \in Clients :
        Post(c) =>
          /\ call[c].codTried => call[c].installed
          /\ (call[c].installed /\ Done(c)) => call[c].codTried
          /\ call[c].installed => pc[c] \in {"c_cod", "done"}
          /\ call[c].codTried =>
               /\ Done(c)
               /\ resp[c].status = 201
               /\ resp[c].data = SuccessPayload(c)
               /\ call[c].delCalls = 0

C14_Witness ==
    \E c \in Clients :
        /\ Post(c) /\ Done(c) /\ call[c].installed
        /\ call[c].cod \in {"false", "raised"}
        /\ resp[c].status = 201

\* C15: every successful create_store result reports the plugin-installed
\* flag as true, whether or not a plugin-install attempt succeeded.
C15_InstalledFlagAlwaysTrue ==
    \A c \in Clients :
        (Post(c) /\ Done(c) /\ resp[c].status = 201)
        => resp[c].data.woocommerce_installed = TRUE

C15_Witness ==
    \E c \in Clients :
        /\ Post(c) /\ Done(c) /\ resp[c].status = 201
        /\ ~call[c].installed /\ call[c].attempts = max_retries
        /\ resp[c].data.woocommerce_installed = TRUE
\* C16: delete_store runs the helm uninstall before the namespace deletion,
\* issues the namespace deletion whatever the uninstall gave, and fails exactly
\* when the namespace deletion returns false or raises.
Delete(c) == req[c].ep = "DELETE"
C16_UninstallNeverBlocksDelete ==
    \A c \in Clients :
        /\ (Delete(c) /\ call[c].delCalls > 0) => call[c].uninstallRan
        /\ (Delete(c) /\ Done(c) /\ call[c].preCheck = "found")
           => /\ call[c].uninstallRan
              /\ call[c].delCalls = 1
              /\ (resp[c].status = 200) <=> (call[c].delResult = "true")
              /\ (resp[c].status = 500) <=> (call[c].delResult \in {"false", "raised"})
C16_Witness == \E c \in Clients : Delete(c) /\ Done(c) /\ call[c].helm = "failed"
        /\ call[c].delResult = "true" /\ resp[c].status = 200
        /\ ns[req[c].name] = "Terminating"

\* C17: list_store_namespaces and get_pods_in_namespace never raise; when the
\* control-plane query fails, in whatever way, they return an empty list.
WrapperQuery == unit.op \in {"list_store_namespaces", "get_pods_in_namespace"}
C17_WrapperQueriesNeverRaise ==
    (WrapperQuery /\ unit.state # "drawn" /\ unit.outcome # "ok")
    => (unit.state = "returned" /\ unit.out = <<>>)

\* C18: on every store endpoint a failure raised by the orchestrator or by
\* the cluster wrapper while the request is handled yields status 500 with a
\* detail that embeds the message of that failure.
FailurePrefixes == {"Store creation failed: ", "Failed to list stores: ",
                    "Failed to get store status: ", "Store deletion failed: "}
C18_FailureMessageReachesClient ==
    \A c \in Clients :
        (Done(c) /\ call[c].err # "")
        => /\ resp[c].status = 500
           /\ \E p \in FailurePrefixes : resp[c].detail = p \o call[c].err

\* C19: a POST /stores body whose store name has a character outside a-z,
\* 0-9 and hyphen, or a length below 3 or above 20, is answered by the schema
\* layer (422) and the handler is not entered; a name of length 3 to 20 over
\* a-z, 0-9 and hyphen is accepted, and the handler is entered when the rest
\* of the body is valid too.
WellFormedName(s) ==
    /\ Len(s) >= 3 /\ Len(s) <= 20
    /\ \A i \in 1..Len(s) : s[i] \in NameClass
C19_SchemaRejectsBadNames ==
    (unit.op = "post_stores" /\ unit.state # "drawn")
    => IF WellFormedName(unit.store_name)
       THEN /\ "store_name" \notin unit.errors
            /\ unit.email_ok => (unit.state = "dispatched" /\ unit.entered)
       ELSE /\ unit.state = "rejected" /\ unit.status = 422
            /\ "store_name" \in unit.errors
            /\ ~unit.entered
C19_Witness ==
    /\ unit.op = "post_stores" /\ unit.state = "rejected" /\ ~unit.entered
    /\ unit.email_ok
    /\ Len(unit.store_name) = 20
    /\ unit.store_name[20] = "_"
    /\ \A i \in 1..19 : unit.store_name[i] \in NameClass

\* C20: when two create_store calls for one name are both past the
\* existence check, at most one returns success, the failure of the other
\* does not delete the namespace the first created, and a call that returns
\* success leaves its namespace in place.
RacedPair(c, d) ==
    /\ c # d /\ Post(c) /\ Post(d) /\ req[c].name = req[d].name
    /\ call[c].raced /\ call[d].raced
C20_RaceKeepsWinnersNamespace ==
    [][\A c, d \in Clients :
         RacedPair(c, d) =>
           /\ ~(pc'[c] = "done" /\ resp'[c].status = 201
                /\ pc'[d] = "done" /\ resp'[d].status = 201)
           /\ (pc[c] = "c_except" /\ pc'[c] = "done" /\ ~call[c].created /\ call[d].created)
              => ns'[req[c].name] = ns[req[c].name]
           /\ (pc[d] # "done" /\ pc'[d] = "done" /\ resp'[d].status = 201)
              => ns'[req[d].name] = "Active"]_vars

\* C21: once the helm install of a create_store call has succeeded, that
\* call issues no namespace delete and ends with a success result, whatever
\* the plugin-install attempts and the payment step give.
C21_NoRollbackAfterInstall ==
    \A c \in Clients :
        (Post(c) /\ call[c].helm = "ok")
        => /\ call[c].delCalls = 0
           /\ pc[c] \in {"c_plugin", "c_cod", "done"}
           /\ Done(c) => (resp[c].status = 201 /\ resp[c].data.store_name = req[c].name)
C21_Witness == \E c \in Clients : Post(c) /\ Done(c) /\ call[c].helm = "ok"
        /\ call[c].attempts > 1 /\ call[c].cod \in {"false", "raised"}
        /\ call[c].delCalls = 0 /\ resp[c].status = 201

\* C22: a DELETE whose pre-check found the namespace and whose namespace
\* deletion call is answered while the namespace is gone responds 404.
C22_GoneNamespaceIs404 ==
    [][\A c \in Clients :
         (Delete(c) /\ pc[c] = "d_delete" /\ pc'[c] = "done"
            /\ call[c].preCheck = "found" /\ ns[req[c].name] = "Absent"
            /\ call'[c].delResult = "false")
         => resp'[c].status = 404]_vars

\* C23: create_store is gated step by step: a failed helm presence check
\* ends the call before any control-plane call; a namespace found by the
\* existence check ends it without a namespace create or delete and without
\* an install command; the helm install runs only after the namespace
\* creation of the same call returned true.
HelmMissing(c) == call[c].err = "Helm is not installed or not in PATH"
NoInstallCommand(c) ==
    call[c].helm = "none" /\ call[c].attempts = 0 /\ ~call[c].codTried
NoNamespaceChange(c) ==
    ~call[c].created /\ ~call[c].createFailed /\ call[c].delCalls = 0
C23_StepsGatedInOrder ==
    \A c \in Clients :
        Post(c) =>
          /\ HelmMissing(c)
             => (Done(c) /\ resp[c].status = 500 /\ call[c].preCheck = "none"
                 /\ NoNamespaceChange(c) /\ NoInstallCommand(c))
          /\ call[c].preCheck = "found"
             => (Done(c) /\ resp[c].status = 500
                 /\ NoNamespaceChange(c) /\ NoInstallCommand(c))
          /\ call[c].helm # "none" => call[c].created
C23_Witness ==
    \E c, d \in Clients :
        /\ Post(c) /\ Done(c) /\ HelmMissing(c) /\ call[c].preCheck = "none"
        /\ Post(d) /\ Done(d) /\ call[d].preCheck = "found" /\ NoNamespaceChange(d)
        /\ ns[req[d].name] = "Active"

\* C24: every create_store call that has started eventually returns a
\* payload or raises, after at most 5 plugin-install attempts and with the
\* payment step entered at most once.
InCreate(c) == pc[c] \in {"POST", "c_exists", "c_create", "c_helm", "c_helm_cleanup",
                          "c_except", "c_plugin", "c_cod"}
C24_CreateTerminates ==
    /\ \A c \in Clients : InCreate(c) ~> (Done(c) /\ resp[c].status \in {201, 500})
    /\ [](\A c \in Clients :
            /\ call[c].attempts <= 5
            /\ pc[c] = "c_cod" => ~call[c].codTried)
C24_Witness == \E c \in Clients : Post(c) /\ Done(c) /\ call[c].attempts = 5
        /\ call[c].sleeps = 4 /\ call[c].helm = "ok" /\ ~call[c].codTried

====
